---- MODULE Spec2Model ----
(***************************************************************************)
(* Model of the Open WebUI tool plugins under                              *)
(* backend/open_webui/extensions/tools:                                    *)
(*   investigation_apis.py       the real client (HTTP GET to /ai/...)     *)
(*   investigation_mock_apis.py  the investigation mock ({code, data})     *)
(*   tools2.py                   the unified mock ({ok, message, data})    *)
(*                                                                         *)
(* Python values are records [t, s, n, items]: t is the type tag, s the    *)
(* text of a str, n the number of an int/bool (and the integer part of a   *)
(* float, whose fraction digits are in s), items the entries of a list or  *)
(* dict in insertion order, each [k, v].                                   *)
(***************************************************************************)
EXTENDS Integers, Sequences, FiniteSets, TLC

VARIABLES valves, pc, call, sent, resp, result, invocations, validated, requests,
          memo, threads

vars == <<valves, pc, call, sent, resp, result, invocations, validated, requests,
          memo, threads>>

(***************************************************************************)
(* Bounds                                                                  *)
(***************************************************************************)
\* Real-client invocations in one run.
MaxCalls == 3

(***************************************************************************)
(* Python values                                                           *)
(***************************************************************************)
PyVal(t, s, n, items) == [t |-> t, s |-> s, n |-> n, items |-> items]

None == PyVal("none", "", 0, <<>>)

Str(s) == PyVal("str", s, 0, <<>>)

Num(n) == PyVal("int", "", n, <<>>)

Bool(b) == PyVal("bool", "", IF b THEN 1 ELSE 0, <<>>)

Float(n, frac) == PyVal("float", frac, n, <<>>)

KV(k, v) == [k |-> k, v |-> v]

Dict(pairs) == PyVal("dict", "", 0, pairs)

List(vals) == PyVal("list", "", 0, [i \in DOMAIN vals |-> KV("", vals[i])])

\* key in d
HasKey(d, key) == d.t = "dict" /\ \E i \in DOMAIN d.items : d.items[i].k = key

\* d.get(key)
Get(d, key) ==
    IF HasKey(d, key)
    THEN d.items[CHOOSE i \in DOMAIN d.items : d.items[i].k = key].v
    ELSE None

\* The value a parameter is bound to: the argument, or the declared default.
Bound(args, p, default) == IF HasKey(args, p) THEN Get(args, p) ELSE default

Keys(d) == { d.items[i].k : i \in DOMAIN d.items }

\* bool(v): the truth value Python gives v in `not v`, `v or w`, `if v`
Truthy(v) ==
    CASE v.t = "none" -> FALSE
      [] v.t = "str" -> v.s # ""
      [] v.t \in {"int", "bool"} -> v.n # 0
      [] v.t = "float" -> ~(v.n = 0 /\ v.s = "0")
      [] OTHER -> Len(v.items) > 0

\* v or w
Or(v, w) == IF Truthy(v) THEN v ELSE w

\* v == n for an integer literal n
EqInt(v, n) ==
    \/ v.t \in {"int", "bool"} /\ v.n = n
    \/ v.t = "float" /\ v.n = n /\ v.s = "0"

\* The text an f-string gives a scalar v
Format(v) ==
    CASE v.t = "none" -> "None"
      [] v.t = "str" -> v.s
      [] v.t = "bool" -> IF v.n = 1 THEN "True" ELSE "False"
      [] OTHER -> "<object>"

RECURSIVE RStrip(_, _)
\* s.rstrip(ch)
RStrip(s, ch) ==
    IF Len(s) > 0 /\ SubSeq(s, Len(s), Len(s)) = ch
    THEN RStrip(SubSeq(s, 1, Len(s) - 1), ch)
    ELSE s

\* sub in s
Contains(s, sub) ==
    \E i \in 1..(Len(s) - Len(sub) + 1) : SubSeq(s, i, i + Len(sub) - 1) = sub

(***************************************************************************)
(* What a call gives back: a returned value or a raised exception          *)
(***************************************************************************)
NoResult == [kind |-> "none", exc |-> "", val |-> None]

Return(v) == [kind |-> "return", exc |-> "", val |-> v]

Raise(type, message) == [kind |-> "raise", exc |-> type, val |-> Str(message)]

(***************************************************************************)
(* investigation_apis.py: helpers                                          *)
(***************************************************************************)
DefaultValves == [backend_base_url |-> "http://192.168.80.185:8654"]

_build_url(v, path) == RStrip(v.backend_base_url, "/") \o path

\* A bug: only None is filtered out, "" is kept.
_clean_params_KeepEmpty(params) ==
    Dict(SelectSeq(params.items, LAMBDA e : e.v.t # "none"))

_clean_params(params) ==
    Dict(SelectSeq(params.items, LAMBDA e : e.v.t # "none" /\ e.v # Str("")))

\* A bug: only None counts as not found, [] and {} as found.
_normalize_found_flag_NoneOnly(data) == data.t # "none"

\* A bug: `bool(data)`, which takes 0, False and "" for not found.
_normalize_found_flag_Truthy(data) == Truthy(data)

_normalize_found_flag(data) ==
    IF data.t = "none" THEN FALSE
    ELSE IF data.t \in {"list", "dict"} /\ Len(data.items) = 0 THEN FALSE
    ELSE TRUE

GetTimeout == 10

\* A bug: requests.get is given the params as the method built them.
GetRequest_Raw(v, path, params) ==
    [url |-> _build_url(v, path), query |-> params, timeout |-> GetTimeout]

\* _get up to requests.get: the one outbound GET
GetRequest(v, path, params) ==
    [url |-> _build_url(v, path), query |-> _clean_params(params), timeout |-> GetTimeout]

\* resp.raise_for_status(): HTTPError for a 4xx or 5xx status
RaiseForStatus(status) == status >= 400 /\ status < 600

\* A bug: the success branch hands back the whole envelope.
Unwrap_WholeBody(body) ==
    IF body.t = "dict" /\ HasKey(body, "code")
    THEN IF ~EqInt(Get(body, "code"), 200)
         THEN Raise("Exception", "Backend error: " \o Format(Get(body, "msg")))
         ELSE Return(body)
    ELSE Return(body)

\* A bug: the business error drops the backend's msg.
Unwrap_NoMsg(body) ==
    IF body.t = "dict" /\ HasKey(body, "code")
    THEN IF ~EqInt(Get(body, "code"), 200)
         THEN Raise("Exception", "Backend error")
         ELSE Return(Get(body, "data"))
    ELSE Return(body)

\* A bug: every object is taken for an AjaxResult, `"code" in body` unchecked.
Unwrap_AnyDict(body) ==
    IF body.t = "dict"
    THEN IF ~EqInt(Get(body, "code"), 200)
         THEN Raise("Exception", "Backend error: " \o Format(Get(body, "msg")))
         ELSE Return(Get(body, "data"))
    ELSE Return(body)

\* _get, from the parsed body on: the AjaxResult is unwrapped
Unwrap(body) ==
    IF body.t = "dict" /\ HasKey(body, "code")
    THEN IF ~EqInt(Get(body, "code"), 200)
         THEN Raise("Exception", "Backend error: " \o Format(Get(body, "msg")))
         ELSE Return(Get(body, "data"))
    ELSE Return(body)

\* A bug: `except Exception: return None` in place of `raise`.
GetResult_Swallow(r) ==
    IF r.kind # "response" THEN Return(None)
    ELSE IF RaiseForStatus(r.status) THEN Return(None)
    ELSE IF ~r.json_ok THEN Return(None)
    ELSE Unwrap(r.body)

\* _get from the answer to requests.get on: what it returns or raises
GetResult(r) ==
    IF r.kind # "response" THEN Raise(r.kind, "")
    ELSE IF RaiseForStatus(r.status) THEN Raise("HTTPError", "")
    ELSE IF ~r.json_ok THEN Raise("JSONDecodeError", "")
    ELSE Unwrap(r.body)

\* A bug: the list of missing fields is dropped.
_need_more_input_NoFields(message, missing_fields) ==
    Dict(<< KV("error", Str("MISSING_REQUIRED_PARAMS")),
            KV("message", Str(message)),
            KV("missing_fields", List(<<>>)) >>)

_need_more_input(message, missing_fields) ==
    Dict(<< KV("error", Str("MISSING_REQUIRED_PARAMS")),
            KV("message", Str(message)),
            KV("missing_fields", Or(missing_fields, List(<<>>))) >>)

\* A bug: the data is handed back bare, as the unwrapped variant did.
_wrap_result_Bare(api_path, raw_params, data) == data

_wrap_result(api_path, raw_params, data) ==
    Dict(<< KV("api", Str(api_path)),
            KV("query_params", _clean_params(raw_params)),
            KV("found", Bool(_normalize_found_flag(data))),
            KV("data", data) >>)

Strs(names) == List([i \in DOMAIN names |-> Str(names[i])])

(***************************************************************************)
(* investigation_apis.py: the ten API mappings.  Each method checks        *)
(* `not a and not b ...` over the parameters in `checked`, returns         *)
(* _need_more_input(message, missing_fields) when none is truthy, and      *)
(* otherwise builds raw_params from all its parameters, in `params` order, *)
(* and calls _get(path, raw_params) and _wrap_result(path, raw_params, _). *)
(***************************************************************************)
Api(path, params, checked, missing_fields, message) ==
    [path |-> path, params |-> params, checked |-> checked,
     missing_fields |-> missing_fields, message |-> message]

get_person_baseinfo ==
    Api("/ai/baseinfo", <<"id", "passport", "phonenum">>, <<"id", "passport", "phonenum">>,
        <<"id", "passport", "phonenum">>,
        "To query base info, please provide at least one of: ID number, passport, or phone number.")

get_family_members ==
    Api("/ai/family", <<"id", "phonenum">>, <<"id", "phonenum">>, <<"id", "phonenum">>,
        "To query family members, please provide an ID number or a phone number.")

\* A bug: the path of get_person_baseinfo, copied with the method.
get_cr_info_CopiedPath ==
    Api("/ai/baseinfo", <<"id", "passport", "phonenum">>, <<"id", "passport", "phonenum">>,
        <<"id", "passport", "phonenum">>,
        "To query CR information, please provide at least one of: ID number, passport, or phone number.")

get_cr_info ==
    Api("/ai/cr", <<"id", "passport", "phonenum">>, <<"id", "passport", "phonenum">>,
        <<"id", "passport", "phonenum">>,
        "To query CR information, please provide at least one of: ID number, passport, or phone number.")

get_top_contacts ==
    Api("/ai/contact", <<"id", "phonenum">>, <<"id", "phonenum">>, <<"id", "phonenum">>,
        "To query top contacts, please provide an ID number or a phone number.")

get_vehicles ==
    Api("/ai/car", <<"id", "phonenum">>, <<"id", "phonenum">>, <<"id", "phonenum">>,
        "To query vehicle information, please provide an ID number or a phone number.")

get_social_accounts ==
    Api("/ai/social", <<"id", "phonenum">>, <<"id", "phonenum">>, <<"id", "phonenum">>,
        "To query social accounts, please provide an ID number or a phone number.")

get_locations ==
    Api("/ai/location", <<"id", "phonenum">>, <<"id", "phonenum">>, <<"id", "phonenum">>,
        "To query locations, please provide an ID number or a phone number.")

search_voip_records ==
    Api("/ai/voip", <<"keyword", "phonenum">>, <<"keyword", "phonenum">>, <<"keyword", "phonenum">>,
        "To query VoIP call records, please provide a keyword or a phone number.")

search_sms_records ==
    Api("/ai/sms", <<"keyword", "phonenum">>, <<"keyword", "phonenum">>, <<"keyword", "phonenum">>,
        "To query SMS records, please provide a keyword or a phone number.")

search_email_records ==
    Api("/ai/email", <<"keyword", "email">>, <<"keyword", "email">>, <<"keyword", "email">>,
        "To query email records, please provide a keyword or an email address.")

RealOps ==
    {"get_person_baseinfo", "get_family_members", "get_cr_info", "get_top_contacts",
     "get_vehicles", "get_social_accounts", "get_locations", "search_voip_records",
     "search_sms_records", "search_email_records"}

RealApi(op) ==
    CASE op = "get_person_baseinfo" -> get_person_baseinfo
      [] op = "get_family_members" -> get_family_members
      [] op = "get_cr_info" -> get_cr_info
      [] op = "get_top_contacts" -> get_top_contacts
      [] op = "get_vehicles" -> get_vehicles
      [] op = "get_social_accounts" -> get_social_accounts
      [] op = "get_locations" -> get_locations
      [] op = "search_voip_records" -> search_voip_records
      [] op = "search_sms_records" -> search_sms_records
      [] op = "search_email_records" -> search_email_records

\* A bug: `a is None and b is None ...`, which lets "" pass the check.
NoneGiven_IsNone(api, args) ==
    \A i \in DOMAIN api.checked : Get(args, api.checked[i]) = None

\* A bug: `not a or not b ...`, which asks for every parameter.
NoneGiven_AnyMissing(api, args) ==
    \E i \in DOMAIN api.checked : ~Truthy(Get(args, api.checked[i]))

\* `not a and not b ...`: no checked parameter is truthy
NoneGiven(api, args) ==
    \A i \in DOMAIN api.checked : ~Truthy(Get(args, api.checked[i]))

\* raw_params = {"id": id, ...}
RawParams(api, args) ==
    Dict([i \in DOMAIN api.params |-> KV(api.params[i], Get(args, api.params[i]))])

(***************************************************************************)
(* investigation_mock_apis.py                                              *)
(***************************************************************************)
PROTOCOL_MAP ==
    Dict(<< KV("147701", Str("X")), KV("147801", Str("TikTok")),
            KV("147501", Str("Instagram")), KV("147201", Str("WhatsApp")),
            KV("147301", Str("Facebook")), KV("147901", Str("AddressBook")),
            KV("128901", Str("Email")), KV("199901", Str("LinkedIn")) >>)

\* d.get(key, default)
GetOr(d, key, default) == IF HasKey(d, key) THEN Get(d, key) ELSE default

\* a + b for two str
Concat(a, b) == Str(a.s \o b.s)

\* A bug: the error carries code and msg only.
_err_CodeOnly(msg, missing, ask) == Dict(<< KV("code", Num(500)), KV("msg", msg) >>)

_ok(data) == Dict(<< KV("code", Num(0)), KV("data", data) >>)

_err(msg, missing, ask) ==
    Dict(<< KV("code", Num(500)), KV("msg", msg) >>
         \o (IF Truthy(missing) THEN << KV("missing_params", missing) >> ELSE <<>>)
         \o (IF Truthy(ask) THEN << KV("ask_user_prompt", ask) >> ELSE <<>>))

\* list(params.keys())
KeyList(params) == List([i \in DOMAIN params.items |-> Str(params.items[i].k)])

_ensure_any_param(func_name, params, msg, ask) ==
    IF \E i \in DOMAIN params.items : params.items[i].v.t # "none"
    THEN None
    ELSE _err(msg, KeyList(params), ask)

_ensure_param(func_name, name, value, msg, ask) ==
    IF value.t # "none"
    THEN None
    ELSE _err(msg, List(<<Str(name)>>), ask)

get_person_basic_info(id, phone, query_id) ==
    LET err == _ensure_any_param("get_person_basic_info",
                   Dict(<<KV("id", id), KV("phone", phone)>>),
                   Str("Missing required identifier: you must provide 'id' or 'phone'."),
                   Str("To query basic information, please provide an ID or a phone number."))
    IN IF Truthy(err) THEN err
       ELSE _ok(Dict(<< KV("id", Or(id, Str("P202511300001"))),
                        KV("phone", Or(phone, Str("+96890001122"))),
                        KV("name", Str("Demo Person")),
                        KV("avatar_url", Str("https://example.com/avatar/demo_person.png")),
                        KV("country", Str("OM")),
                        KV("gender", Str("M")),
                        KV("query_id", Or(query_id, Str("mock-baseinfo-001"))) >>))

get_contact_statistics(phone, email, query_id) ==
    LET err == _ensure_any_param("get_contact_statistics",
                   Dict(<<KV("phone", phone), KV("email", email)>>),
                   Str("Missing required identifier: you must provide 'phone' or 'email'."),
                   Str("To query contacts, please provide a phone number or an email address."))
        target == Or(phone, email)
        data == List(<< Dict(<< KV("contact_type", Str("phone")),
                                KV("contact", Str("+96890003344")), KV("times", Num(128)) >>),
                        Dict(<< KV("contact_type", Str("phone")),
                                KV("contact", Str("+96890005566")), KV("times", Num(34)) >>),
                        Dict(<< KV("contact_type", Str("email")),
                                KV("contact", Str("friend@example.com")), KV("times", Num(12)) >>) >>)
    IN IF Truthy(err) THEN err
       ELSE _ok(Dict(<< KV("owner", target),
                        KV("items", data),
                        KV("query_id", Or(query_id, Str("mock-contact-001"))) >>))

mock_get_social_accounts(account, phone, query_id) ==
    LET err == _ensure_any_param("get_social_accounts",
                   Dict(<<KV("account", account), KV("phone", phone)>>),
                   Str("Missing required identifier: you must provide 'account' or 'phone'."),
                   Str("To query social identities, please provide a social account or a phone number."))
        owner == Or(account, Or(phone, Str("")))
        items == List(<< Dict(<< KV("dataid", Concat(Str("128901_"), owner)),
                                 KV("protocol", Str("128901")),
                                 KV("account", Or(owner, Str("demo_user@m.facebook.com"))),
                                 KV("phone", Or(phone, Str("+96890001122"))),
                                 KV("nickname", Str("Demo Email")),
                                 KV("platform", GetOr(PROTOCOL_MAP, "128901", Str("Email"))) >>),
                         Dict(<< KV("dataid", Concat(Str("147301_"), Or(phone, Str("demo_facebook")))),
                                 KV("protocol", Str("147301")),
                                 KV("account", Str("demo_facebook_user")),
                                 KV("phone", Or(phone, Str("+96890001122"))),
                                 KV("nickname", Str("Demo FB")),
                                 KV("platform", GetOr(PROTOCOL_MAP, "147301", Str("Facebook"))) >>) >>)
    IN IF Truthy(err) THEN err
       ELSE _ok(Dict(<< KV("owner", owner),
                        KV("items", items),
                        KV("query_id", Or(query_id, Str("mock-social-001"))) >>))

get_company_registration(id, query_id) ==
    LET err == _ensure_param("get_company_registration", "id", id,
                   Str("Missing required parameter: id."),
                   Str("To query company registration information, please provide a company id."))
    IN IF Truthy(err) THEN err
       ELSE _ok(Dict(<< KV("id", id),
                        KV("reg_no", Str("CR-2025-000001")),
                        KV("name", Str("OneCloudTech Demo LLC")),
                        KV("status", Str("Active")),
                        KV("legal_person", Str("Demo Owner")),
                        KV("address", Str("Muscat, Oman")),
                        KV("industry", Str("Information Technology Services")),
                        KV("establish_date", Str("2023-01-01")),
                        KV("query_id", Or(query_id, Str("mock-cr-001"))) >>))

\* A bug: the caller of the first record is a literal, not the phone given.
get_voip_records_FixedFrom(phone, query_id) ==
    LET err == _ensure_param("get_voip_records", "phone", phone,
                   Str("Missing required parameter: phone."),
                   Str("To query VoIP call records, please provide a phone number."))
        items == List(<< Dict(<< KV("call_id", Str("VOIP-20251130-0001")),
                                 KV("from", Str("+96890001122")),
                                 KV("to", Str("+96890002233")),
                                 KV("start_time", Str("2025-11-30 10:30:00")),
                                 KV("duration_sec", Num(180)),
                                 KV("direction", Str("outgoing")) >>),
                         Dict(<< KV("call_id", Str("VOIP-20251130-0002")),
                                 KV("from", Str("+96890002233")),
                                 KV("to", phone),
                                 KV("start_time", Str("2025-11-29 21:15:00")),
                                 KV("duration_sec", Num(60)),
                                 KV("direction", Str("incoming")) >>) >>)
    IN IF Truthy(err) THEN err
       ELSE _ok(Dict(<< KV("phone", phone),
                        KV("items", items),
                        KV("query_id", Or(query_id, Str("mock-voip-001"))) >>))

get_voip_records(phone, query_id) ==
    LET err == _ensure_param("get_voip_records", "phone", phone,
                   Str("Missing required parameter: phone."),
                   Str("To query VoIP call records, please provide a phone number."))
        items == List(<< Dict(<< KV("call_id", Str("VOIP-20251130-0001")),
                                 KV("from", phone),
                                 KV("to", Str("+96890002233")),
                                 KV("start_time", Str("2025-11-30 10:30:00")),
                                 KV("duration_sec", Num(180)),
                                 KV("direction", Str("outgoing")) >>),
                         Dict(<< KV("call_id", Str("VOIP-20251130-0002")),
                                 KV("from", Str("+96890002233")),
                                 KV("to", phone),
                                 KV("start_time", Str("2025-11-29 21:15:00")),
                                 KV("duration_sec", Num(60)),
                                 KV("direction", Str("incoming")) >>) >>)
    IN IF Truthy(err) THEN err
       ELSE _ok(Dict(<< KV("phone", phone),
                        KV("items", items),
                        KV("query_id", Or(query_id, Str("mock-voip-001"))) >>))

get_sms_records(phone, query_id) ==
    LET err == _ensure_param("get_sms_records", "phone", phone,
                   Str("Missing required parameter: phone."),
                   Str("To query SMS records, please provide a phone number."))
        items == List(<< Dict(<< KV("sms_id", Str("SMS-20251130-0001")),
                                 KV("from", phone),
                                 KV("to", Str("+96890003344")),
                                 KV("time", Str("2025-11-30 09:00:00")),
                                 KV("content", Str("Demo SMS content 1.")) >>),
                         Dict(<< KV("sms_id", Str("SMS-20251129-0002")),
                                 KV("from", Str("+96890005566")),
                                 KV("to", phone),
                                 KV("time", Str("2025-11-29 18:20:00")),
                                 KV("content", Str("Demo SMS content 2.")) >>) >>)
    IN IF Truthy(err) THEN err
       ELSE _ok(Dict(<< KV("phone", phone),
                        KV("items", items),
                        KV("query_id", Or(query_id, Str("mock-sms-001"))) >>))

get_email_records(email, query_id) ==
    LET err == _ensure_param("get_email_records", "email", email,
                   Str("Missing required parameter: email."),
                   Str("To query email records, please provide an email address."))
        items == List(<< Dict(<< KV("message_id", Str("MAIL-20251130-0001")),
                                 KV("from", email),
                                 KV("to", List(<<Str("friend1@example.com")>>)),
                                 KV("subject", Str("Demo email subject 1")),
                                 KV("time", Str("2025-11-30 08:30:00")) >>),
                         Dict(<< KV("message_id", Str("MAIL-20251129-0002")),
                                 KV("from", Str("other@example.com")),
                                 KV("to", List(<<email>>)),
                                 KV("subject", Str("Demo email subject 2")),
                                 KV("time", Str("2025-11-29 16:10:00")) >>) >>)
    IN IF Truthy(err) THEN err
       ELSE _ok(Dict(<< KV("email", email),
                        KV("items", items),
                        KV("query_id", Or(query_id, Str("mock-email-001"))) >>))

MockOps ==
    {"get_person_basic_info", "get_contact_statistics", "get_social_accounts",
     "get_company_registration", "get_voip_records", "get_sms_records", "get_email_records"}

\* The parameters of each method, in signature order (all default to None).
MockParams(op) ==
    CASE op = "get_person_basic_info" -> <<"id", "phone", "query_id">>
      [] op = "get_contact_statistics" -> <<"phone", "email", "query_id">>
      [] op = "get_social_accounts" -> <<"account", "phone", "query_id">>
      [] op = "get_company_registration" -> <<"id", "query_id">>
      [] op = "get_voip_records" -> <<"phone", "query_id">>
      [] op = "get_sms_records" -> <<"phone", "query_id">>
      [] op = "get_email_records" -> <<"email", "query_id">>

\* The value the method op of the investigation mock returns for args.
MockReturn(op, args) ==
    LET a(p) == Bound(args, p, None) IN
    CASE op = "get_person_basic_info" -> get_person_basic_info(a("id"), a("phone"), a("query_id"))
      [] op = "get_contact_statistics" -> get_contact_statistics(a("phone"), a("email"), a("query_id"))
      [] op = "get_social_accounts" -> mock_get_social_accounts(a("account"), a("phone"), a("query_id"))
      [] op = "get_company_registration" -> get_company_registration(a("id"), a("query_id"))
      [] op = "get_voip_records" -> get_voip_records(a("phone"), a("query_id"))
      [] op = "get_sms_records" -> get_sms_records(a("phone"), a("query_id"))
      [] op = "get_email_records" -> get_email_records(a("email"), a("query_id"))

(***************************************************************************)
(* tools2.py                                                               *)
(***************************************************************************)
Reply(ok, message, data) ==
    Dict(<< KV("ok", Bool(ok)), KV("message", Str(message)), KV("data", data) >>)

MockSource == Dict(<< KV("source", Str("MOCK_DATA")) >>)

\* A bug: name or phone alone passes the check.
query_person_basic_info_NameOrPhone(person_id, id_type, name, phone) ==
    IF ~Truthy(person_id) /\ ~(Truthy(name) \/ Truthy(phone))
    THEN Reply(FALSE,
               "Missing required parameters: provide 'person_id', or 'name' and 'phone'. (mock tool)",
               None)
    ELSE LET mock_person_id == Or(person_id, Str("MOCK_ID_0001"))
             mock_name == Or(name, Str("Mock User"))
             mock_phone == Or(phone, Str("13800000000"))
             fields == << KV("personId", mock_person_id),
                          KV("name", mock_name),
                          KV("gender", Str("M")),
                          KV("birthDate", Str("1990-01-01")),
                          KV("idType", id_type),
                          KV("idNumber", mock_person_id),
                          KV("phone", mock_phone),
                          KV("address", Str("Mock City, Mock District, Mock Street 001")) >>
         IN Reply(TRUE, "Person basic info mock query succeeded.",
                  Dict(fields \o << KV("raw", Dict(fields \o << KV("source", Str("MOCK_DATA")) >>)) >>))

query_person_basic_info(person_id, id_type, name, phone) ==
    IF ~Truthy(person_id) /\ ~(Truthy(name) /\ Truthy(phone))
    THEN Reply(FALSE,
               "Missing required parameters: provide 'person_id', or 'name' and 'phone'. (mock tool)",
               None)
    ELSE LET mock_person_id == Or(person_id, Str("MOCK_ID_0001"))
             mock_name == Or(name, Str("Mock User"))
             mock_phone == Or(phone, Str("13800000000"))
             fields == << KV("personId", mock_person_id),
                          KV("name", mock_name),
                          KV("gender", Str("M")),
                          KV("birthDate", Str("1990-01-01")),
                          KV("idType", id_type),
                          KV("idNumber", mock_person_id),
                          KV("phone", mock_phone),
                          KV("address", Str("Mock City, Mock District, Mock Street 001")) >>
         IN Reply(TRUE, "Person basic info mock query succeeded.",
                  Dict(fields \o << KV("raw", Dict(fields \o << KV("source", Str("MOCK_DATA")) >>)) >>))

query_call_detail(caller, callee, phone, start_time, end_time, limit) ==
    IF ~Truthy(caller) /\ ~Truthy(callee) /\ ~Truthy(phone)
    THEN Reply(FALSE,
               "Missing required parameters: provide 'caller', 'callee' or 'phone'. (mock tool)",
               None)
    ELSE LET base_phone == Or(phone, Or(caller, Or(callee, Str("10086"))))
             records ==
               List(<< Dict(<< KV("callId", Str("MOCK_CALL_001")),
                               KV("caller", Or(caller, base_phone)),
                               KV("callee", Or(callee, Str("13900000001"))),
                               KV("startTime", Or(start_time, Str("2024-10-01 10:00:00"))),
                               KV("endTime", Str("2024-10-01 10:05:30")),
                               KV("durationSeconds", Num(330)),
                               KV("direction", Str("outgoing")),
                               KV("result", Str("answered")),
                               KV("raw", MockSource) >>),
                       Dict(<< KV("callId", Str("MOCK_CALL_002")),
                               KV("caller", Or(caller, Str("13900000002"))),
                               KV("callee", Or(callee, base_phone)),
                               KV("startTime", Or(start_time, Str("2024-10-01 11:20:00"))),
                               KV("endTime", Str("2024-10-01 11:21:10")),
                               KV("durationSeconds", Num(70)),
                               KV("direction", Str("incoming")),
                               KV("result", Str("missed")),
                               KV("raw", MockSource) >>) >>)
         IN Reply(TRUE, "Call detail mock query succeeded.", records)

query_db_basic(id_number, id_type, db_type) ==
    IF ~Truthy(id_number)
    THEN Reply(FALSE, "Missing required parameter: 'id_number'. (mock tool)", None)
    ELSE LET mock_db_type == Or(db_type, Str("general"))
         IN Reply(TRUE, "Base DB mock query succeeded.",
                  Dict(<< KV("idNumber", id_number),
                          KV("idType", id_type),
                          KV("dbType", mock_db_type),
                          KV("riskLevel", Str("low")),
                          KV("tags", List(<<Str("mock"), Str("demo")>>)),
                          KV("remark", Str("This is a mock base DB record for demo purpose.")),
                          KV("raw", MockSource) >>))

query_location(phone, device_id, start_time, end_time, limit) ==
    IF ~Truthy(phone) /\ ~Truthy(device_id)
    THEN Reply(FALSE,
               "Missing required parameters: provide 'phone' or 'device_id'. (mock tool)",
               None)
    ELSE LET target == Or(phone, Or(device_id, Str("MOCK_TARGET")))
             records ==
               List(<< Dict(<< KV("target", target),
                               KV("time", Or(start_time, Str("2024-10-01 09:00:00"))),
                               KV("lat", Float(23, "123456")),
                               KV("lon", Float(113, "123456")),
                               KV("address", Str("Mock City - Location A")),
                               KV("raw", MockSource) >>),
                       Dict(<< KV("target", target),
                               KV("time", Str("2024-10-01 10:30:00")),
                               KV("lat", Float(23, "223456")),
                               KV("lon", Float(113, "223456")),
                               KV("address", Str("Mock City - Location B")),
                               KV("raw", MockSource) >>),
                       Dict(<< KV("target", target),
                               KV("time", Or(end_time, Str("2024-10-01 12:00:00"))),
                               KV("lat", Float(23, "323456")),
                               KV("lon", Float(113, "323456")),
                               KV("address", Str("Mock City - Location C")),
                               KV("raw", MockSource) >>) >>)
         IN Reply(TRUE, "Location mock query succeeded.", records)

query_cdr(phone, start_time, end_time, page, page_size) ==
    IF ~Truthy(phone)
    THEN Reply(FALSE, "Missing required parameter: 'phone'. (mock tool)", None)
    ELSE LET records ==
               List(<< Dict(<< KV("cdrId", Str("MOCK_CDR_001")),
                               KV("phone", phone),
                               KV("otherParty", Str("13900000001")),
                               KV("startTime", Or(start_time, Str("2024-10-01 08:00:00"))),
                               KV("durationSeconds", Num(120)),
                               KV("direction", Str("outgoing")),
                               KV("result", Str("answered")),
                               KV("raw", MockSource) >>),
                       Dict(<< KV("cdrId", Str("MOCK_CDR_002")),
                               KV("phone", phone),
                               KV("otherParty", Str("13900000002")),
                               KV("startTime", Str("2024-10-01 09:15:00")),
                               KV("durationSeconds", Num(0)),
                               KV("direction", Str("incoming")),
                               KV("result", Str("missed")),
                               KV("raw", MockSource) >>) >>)
             total == Num(2)
         IN Reply(TRUE, "CDR mock query succeeded.",
                  Dict(<< KV("records", records),
                          KV("total", total),
                          KV("page", page),
                          KV("pageSize", page_size),
                          KV("raw", Dict(<< KV("records", records),
                                            KV("total", total),
                                            KV("source", Str("MOCK_DATA")) >>)) >>))

UnifiedOps ==
    {"query_person_basic_info", "query_call_detail", "query_db_basic", "query_location",
     "query_cdr"}

\* The parameters of each method, in signature order.
UnifiedParams(op) ==
    CASE op = "query_person_basic_info" -> <<"person_id", "id_type", "name", "phone">>
      [] op = "query_call_detail" ->
           <<"caller", "callee", "phone", "start_time", "end_time", "limit">>
      [] op = "query_db_basic" -> <<"id_number", "id_type", "db_type">>
      [] op = "query_location" -> <<"phone", "device_id", "start_time", "end_time", "limit">>
      [] op = "query_cdr" -> <<"phone", "start_time", "end_time", "page", "page_size">>

\* A parameter declared without a default.
NoDefault == PyVal("empty", "", 0, <<>>)

\* The declared default of parameter p of method op.
UnifiedDefault(op, p) ==
    CASE p = "id_type" -> Str("id_card")
      [] p = "limit" -> IF op = "query_call_detail" THEN Num(100) ELSE Num(200)
      [] p = "page" -> Num(1)
      [] p = "page_size" -> Num(100)
      [] p = "id_number" -> NoDefault
      [] p = "phone" /\ op = "query_cdr" -> NoDefault
      [] OTHER -> None

\* The parameters of op that args leaves without a value.
Unbound(op, args) ==
    { p \in { UnifiedParams(op)[i] : i \in DOMAIN UnifiedParams(op) } :
        Bound(args, p, UnifiedDefault(op, p)) = NoDefault }

\* The value the method op of the unified mock returns for args that bind
\* every parameter.
UnifiedReturn(op, args) ==
    LET a(p) == Bound(args, p, UnifiedDefault(op, p)) IN
    CASE op = "query_person_basic_info" ->
           query_person_basic_info(a("person_id"), a("id_type"), a("name"), a("phone"))
      [] op = "query_call_detail" ->
           query_call_detail(a("caller"), a("callee"), a("phone"), a("start_time"),
                             a("end_time"), a("limit"))
      [] op = "query_db_basic" -> query_db_basic(a("id_number"), a("id_type"), a("db_type"))
      [] op = "query_location" ->
           query_location(a("phone"), a("device_id"), a("start_time"), a("end_time"), a("limit"))
      [] op = "query_cdr" ->
           query_cdr(a("phone"), a("start_time"), a("end_time"), a("page"), a("page_size"))

(***************************************************************************)
(* Inputs: the keyword arguments of a call, and the backend's answers      *)
(***************************************************************************)
\* A parameter is left out, passed as "", or passed with a value.
ArgKinds == {"absent", "empty", "value"}

SampleValue(p) ==
    CASE p = "phonenum" -> "96890001122"
      [] p = "phone" -> "96890001122"
      [] p = "id" -> "12345678"
      [] p = "passport" -> "P7654321"
      [] p = "email" -> "demo@example.com"
      [] p = "keyword" -> "invoice"
      [] OTHER -> "v-" \o p

\* The parameters declared int; the others are str.
IntParams == {"limit", "page", "page_size"}

SampleInt == 5

ArgValue(p, kind) ==
    IF p \in IntParams THEN Num(SampleInt)
    ELSE IF kind = "empty" THEN Str("") ELSE Str(SampleValue(p))

\* The keyword arguments that pass the parameters ps as kinds[i] says.
Kwargs(ps, kinds) ==
    Dict([i \in 1..Cardinality({j \in DOMAIN ps : kinds[j] # "absent"}) |->
            LET j == CHOOSE j \in DOMAIN ps :
                        /\ kinds[j] # "absent"
                        /\ Cardinality({h \in 1..j : kinds[h] # "absent"}) = i
            IN KV(ps[j], ArgValue(ps[j], kinds[j]))])

AllKwargs(ps) ==
    { Kwargs(ps, kinds) :
        kinds \in { f \in [DOMAIN ps -> ArgKinds] :
                      \A i \in DOMAIN ps : ps[i] \in IntParams => f[i] # "empty" } }

DataVals ==
    { None, List(<<>>), Dict(<<>>), Num(0), Bool(FALSE), Str(""),
      Dict(<<KV("name", Str("X"))>>), Dict(<<KV("x", Num(1))>>), List(<<Str("a")>>) }

\* {"code": 200, "msg": "ok", "data": d}, and the same without "data"
OkBodies ==
    { Dict(<<KV("code", Num(200)), KV("msg", Str("ok")), KV("data", d)>>) : d \in DataVals }
    \cup { Dict(<<KV("code", Num(200)), KV("msg", Str("ok"))>>),
           Dict(<<KV("code", Num(200)), KV("data", Dict(<<KV("name", Str("X"))>>))>>),
           Dict(<<KV("code", Float(200, "0")), KV("data", Dict(<<KV("x", Num(1))>>))>>) }

ErrorCodes == { Num(500), Num(0), Str("200"), None }

\* {"code": c, "msg": m} with c other than 200, with and without "msg"
ErrorBodies ==
    { Dict(<<KV("code", c), KV("msg", m)>>) : c \in ErrorCodes, m \in {Str("boom"), Str("")} }
    \cup { Dict(<<KV("code", c)>>) : c \in ErrorCodes }
    \cup { Dict(<<KV("code", Num(0)), KV("msg", Str("boom")), KV("data", Dict(<<KV("x", Num(1))>>))>>) }

\* bodies that are no object with a "code" field
RawBodies ==
    DataVals \cup { Dict(<<KV("msg", Str("ok")), KV("data", Dict(<<KV("name", Str("X"))>>))>>) }

Response(status, json_ok, body) ==
    [kind |-> "response", status |-> status, json_ok |-> json_ok, body |-> body]

Failure(kind) == [kind |-> kind, status |-> 0, json_ok |-> FALSE, body |-> None]

\* What requests.get can answer: an exception, or a response with a status
\* and a body that parses as JSON or does not.
Responses ==
    { Failure("ConnectionError"), Failure("Timeout") }
    \cup { Response(200, TRUE, b) : b \in OkBodies \cup ErrorBodies \cup RawBodies }
    \cup { Response(st, FALSE, None) : st \in {200, 204, 300, 404, 500} }
    \cup { Response(st, TRUE, b) : st \in {300, 404, 500},
             b \in { Dict(<<KV("code", Num(200)), KV("msg", Str("ok")), KV("data", List(<<>>))>>),
                     Dict(<<KV("code", Num(500)), KV("msg", Str("boom"))>>) } }

(***************************************************************************)
(* State                                                                   *)
(***************************************************************************)
NoCall == [tool |-> "", op |-> "", args |-> Dict(<<>>)]

\* memo: a call the caller made earlier and what it gave back.
NoMemo == [call |-> NoCall, result |-> NoResult]

\* threads: the calls of concurrent callers of one Tools instance, each with
\* the local variables of its method (raw_params from op and args, data).
Threads == {1, 2}

NoThread ==
    [pc |-> "idle", op |-> "", args |-> Dict(<<>>), sent |-> <<>>, resp |-> <<>>,
     data |-> None, result |-> NoResult]

Init ==
    /\ valves = DefaultValves
    /\ pc = "idle"
    /\ call = NoCall
    /\ sent = <<>>
    /\ resp = <<>>
    /\ result = NoResult
    /\ invocations = 0
    /\ validated = 0
    /\ requests = 0
    /\ memo = NoMemo
    /\ threads = [t \in Threads |-> NoThread]

(***************************************************************************)
(* investigation_apis.py: the body of each of the ten methods              *)
(***************************************************************************)
\* The `if not ...: return self._need_more_input(...)` of method op: the
\* value returned there, or None when the method goes on.
Validate(op, args) ==
    LET api == RealApi(op) IN
    IF NoneGiven(api, args)
    THEN _need_more_input(api.message, Strs(api.missing_fields))
    ELSE None

\* The GET that `data = self._get(path, raw_params)` sends.
Request(v, op, args) ==
    LET api == RealApi(op) IN GetRequest(v, api.path, RawParams(api, args))

\* `data = self._get(...)` from the answer r on, and
\* `return self._wrap_result(path, raw_params, data)`.
Complete(op, args, r) ==
    LET api == RealApi(op)
        got == GetResult(r)
    IN IF got.kind = "raise"
       THEN got
       ELSE Return(_wrap_result(api.path, RawParams(api, args), got.val))

\* A bug: the GET is sent before the parameters are looked at.
Invoke_RequestFirst(op, args) ==
    /\ pc = "idle"
    /\ invocations < MaxCalls
    /\ invocations' = invocations + 1
    /\ call' = [tool |-> "investigation_apis", op |-> op, args |-> args]
    /\ resp' = <<>>
    /\ sent' = <<Request(valves, op, args)>>
    /\ requests' = requests + 1
    /\ IF Truthy(Validate(op, args))
       THEN /\ result' = Return(Validate(op, args))
            /\ pc' = "returned"
            /\ UNCHANGED validated
       ELSE /\ validated' = validated + 1
            /\ result' = NoResult
            /\ pc' = "waiting"
    /\ UNCHANGED <<valves, memo, threads>>

\* A bug: _build_url writes the stripped base URL back to the valves.
Invoke_NormalizeBase(op, args) ==
    /\ pc = "idle"
    /\ invocations < MaxCalls
    /\ invocations' = invocations + 1
    /\ call' = [tool |-> "investigation_apis", op |-> op, args |-> args]
    /\ resp' = <<>>
    /\ IF Truthy(Validate(op, args))
       THEN /\ result' = Return(Validate(op, args))
            /\ pc' = "returned"
            /\ sent' = <<>>
            /\ UNCHANGED <<valves, validated, requests>>
       ELSE /\ sent' = <<Request(valves, op, args)>>
            /\ valves' = [valves EXCEPT !.backend_base_url = RStrip(@, "/")]
            /\ requests' = requests + 1
            /\ validated' = validated + 1
            /\ result' = NoResult
            /\ pc' = "waiting"
    /\ UNCHANGED <<memo, threads>>

(***************************************************************************)
(* investigation_apis.py: a call of one of the ten methods, up to the      *)
(* outbound GET (or to the return of _need_more_input)                     *)
(***************************************************************************)
Invoke(op, args) ==
    /\ pc = "idle"
    /\ invocations < MaxCalls
    /\ invocations' = invocations + 1
    /\ call' = [tool |-> "investigation_apis", op |-> op, args |-> args]
    /\ resp' = <<>>
    /\ IF Truthy(Validate(op, args))
       THEN /\ result' = Return(Validate(op, args))
            /\ pc' = "returned"
            /\ sent' = <<>>
            /\ UNCHANGED <<validated, requests>>
       ELSE /\ sent' = <<Request(valves, op, args)>>
            /\ requests' = requests + 1
            /\ validated' = validated + 1
            /\ result' = NoResult
            /\ pc' = "waiting"
    /\ UNCHANGED <<valves, memo, threads>>

\* A bug: a failed GET is sent once more.
Receive_Retry(r) ==
    /\ pc = "waiting"
    /\ IF r.kind # "response" /\ Len(sent) < 2
       THEN /\ sent' = sent \o sent
            /\ requests' = requests + 1
            /\ UNCHANGED <<resp, result, pc>>
       ELSE /\ resp' = <<r>>
            /\ result' = Complete(call.op, call.args, r)
            /\ pc' = IF result'.kind = "raise" THEN "raised" ELSE "returned"
            /\ UNCHANGED <<sent, requests>>
    /\ UNCHANGED <<valves, call, invocations, validated, memo, threads>>

(***************************************************************************)
(* investigation_apis.py: the rest of the call, from the answer to the GET *)
(***************************************************************************)
Receive(r) ==
    /\ pc = "waiting"
    /\ resp' = <<r>>
    /\ result' = Complete(call.op, call.args, r)
    /\ pc' = IF result'.kind = "raise" THEN "raised" ELSE "returned"
    /\ UNCHANGED <<valves, call, sent, invocations, validated, requests, memo, threads>>

(***************************************************************************)
(* investigation_mock_apis.py: a call of one of the seven methods          *)
(***************************************************************************)
MockOutcome(op, args) == Return(MockReturn(op, args))

\* A bug: the answer carries the number of the calls served so far.
MockCall_Numbered(op, args) ==
    /\ pc = "idle"
    /\ invocations < MaxCalls
    /\ invocations' = invocations + 1
    /\ call' = [tool |-> "investigation_mock_apis", op |-> op, args |-> args]
    /\ result' = Return(Dict(MockReturn(op, args).items \o <<KV("seq", Num(invocations))>>))
    /\ pc' = "returned"
    /\ UNCHANGED <<valves, sent, resp, validated, requests, memo, threads>>

MockCall(op, args) ==
    /\ pc = "idle"
    /\ call' = [tool |-> "investigation_mock_apis", op |-> op, args |-> args]
    /\ result' = MockOutcome(op, args)
    /\ pc' = "returned"
    /\ UNCHANGED <<valves, sent, resp, invocations, validated, requests, memo, threads>>

(***************************************************************************)
(* tools2.py: a call of one of the five methods; Python raises TypeError   *)
(* for a call that leaves a parameter without default unbound              *)
(***************************************************************************)
UnifiedOutcome(op, args) ==
    IF Unbound(op, args) # {}
    THEN Raise("TypeError", "missing 1 required positional argument")
    ELSE Return(UnifiedReturn(op, args))

UnifiedCall(op, args) ==
    /\ pc = "idle"
    /\ call' = [tool |-> "tools2", op |-> op, args |-> args]
    /\ result' = UnifiedOutcome(op, args)
    /\ pc' = IF result'.kind = "raise" THEN "raised" ELSE "returned"
    /\ UNCHANGED <<valves, sent, resp, invocations, validated, requests, memo, threads>>

(***************************************************************************)
(* The caller takes what the call returned or raised; the call is over.    *)
(***************************************************************************)
Finish ==
    /\ pc \in {"returned", "raised"}
    /\ pc' = "idle"
    /\ call' = NoCall
    /\ sent' = <<>>
    /\ resp' = <<>>
    /\ result' = NoResult
    /\ UNCHANGED <<valves, invocations, validated, requests, memo, threads>>

Next ==
    \/ \E op \in RealOps : \E args \in AllKwargs(RealApi(op).params) : Invoke(op, args)
    \/ \E r \in Responses : Receive(r)
    \/ \E op \in MockOps : \E args \in AllKwargs(MockParams(op)) : MockCall(op, args)
    \/ \E op \in UnifiedOps : \E args \in AllKwargs(UnifiedParams(op)) : UnifiedCall(op, args)
    \/ Finish

Spec == Init /\ [][Next]_vars

(***************************************************************************)
(* The same calls on an instance whose valves were configured: the base    *)
(* URL as declared, or with a trailing slash (which _build_url strips).    *)
(***************************************************************************)
BaseUrls == { DefaultValves.backend_base_url, DefaultValves.backend_base_url \o "/" }

InitValves ==
    /\ valves \in { [backend_base_url |-> u] : u \in BaseUrls }
    /\ pc = "idle"
    /\ call = NoCall
    /\ sent = <<>>
    /\ resp = <<>>
    /\ result = NoResult
    /\ invocations = 0
    /\ validated = 0
    /\ requests = 0
    /\ memo = NoMemo
    /\ threads = [t \in Threads |-> NoThread]

SpecValves == InitValves /\ [][Next]_vars

(***************************************************************************)
(* Sequences of calls of the two mocks.  The caller may keep what a call   *)
(* with at most MaxRemembered arguments gave back, to compare it with what *)
(* a later call gives back.                                                *)
(***************************************************************************)
MaxRemembered == 1

Keep ==
    /\ pc \in {"returned", "raised"}
    /\ call.tool \in {"investigation_mock_apis", "tools2"}
    /\ memo = NoMemo
    /\ Len(call.args.items) <= MaxRemembered
    /\ memo' = [call |-> call, result |-> result]
    /\ pc' = "idle"
    /\ call' = NoCall
    /\ sent' = <<>>
    /\ resp' = <<>>
    /\ result' = NoResult
    /\ UNCHANGED <<valves, invocations, validated, requests, threads>>

NextMock ==
    \/ \E op \in MockOps : \E args \in AllKwargs(MockParams(op)) : MockCall(op, args)
    \/ \E op \in UnifiedOps : \E args \in AllKwargs(UnifiedParams(op)) : UnifiedCall(op, args)
    \/ Keep
    \/ Finish

SpecMock == Init /\ [][NextMock]_vars

(***************************************************************************)
(* investigation_apis.py: concurrent calls on one Tools instance.  Each    *)
(* caller runs the method body step by step: the required-parameter check, *)
(* the GET of _get, the unwrapping of the answer in _get, _wrap_result.    *)
(* The instance holds the valves only; raw_params and data are locals.     *)
(***************************************************************************)
\* The answers the Gateway gives in these runs.
ConcResponses ==
    { Failure("Timeout"),
      Response(200, TRUE, Dict(<<KV("code", Num(200)), KV("msg", Str("ok")),
                                  KV("data", Dict(<<KV("name", Str("X"))>>))>>)),
      Response(200, TRUE, Dict(<<KV("code", Num(200)), KV("msg", Str("ok")),
                                  KV("data", List(<<>>))>>)),
      Response(200, TRUE, Dict(<<KV("code", Num(500)), KV("msg", Str("boom"))>>)) }

\* The arguments of the calls in these runs: each parameter left out or
\* given a value.
ConcArgs(op) ==
    { args \in AllKwargs(RealApi(op).params) :
        \A i \in DOMAIN args.items : args.items[i].v # Str("") }

\* The state of the single-caller runs, which these steps leave alone.
single == <<valves, pc, call, sent, resp, result, invocations, validated, requests, memo>>

ThreadValidate(t, op, args) ==
    /\ threads[t].pc = "idle"
    /\ threads' = [threads EXCEPT ![t] =
           IF Truthy(Validate(op, args))
           THEN [NoThread EXCEPT !.pc = "returned", !.op = op, !.args = args,
                                 !.result = Return(Validate(op, args))]
           ELSE [NoThread EXCEPT !.pc = "validated", !.op = op, !.args = args]]
    /\ UNCHANGED single

ThreadRequest(t) ==
    /\ threads[t].pc = "validated"
    /\ threads' = [threads EXCEPT ![t].pc = "waiting",
                                  ![t].sent = <<Request(valves, threads[t].op, threads[t].args)>>]
    /\ UNCHANGED single

ThreadUnwrap(t, r) ==
    /\ threads[t].pc = "waiting"
    /\ LET got == GetResult(r) IN
       threads' = [threads EXCEPT ![t] =
           IF got.kind = "raise"
           THEN [@ EXCEPT !.pc = "raised", !.resp = <<r>>, !.result = got]
           ELSE [@ EXCEPT !.pc = "unwrapped", !.resp = <<r>>, !.data = got.val]]
    /\ UNCHANGED single

\* A bug: raw_params is kept on the instance, where the call of another
\* caller overwrites it.
ThreadWrap_SharedParams(t) ==
    /\ threads[t].pc = "unwrapped"
    /\ LET api == RealApi(threads[t].op)
           o == CHOOSE u \in Threads : u # t
           raw_params == IF threads[o].pc = "idle"
                         THEN RawParams(api, threads[t].args)
                         ELSE RawParams(RealApi(threads[o].op), threads[o].args)
       IN threads' = [threads EXCEPT ![t].pc = "returned",
                         ![t].result = Return(_wrap_result(api.path, raw_params, threads[t].data))]
    /\ UNCHANGED single

ThreadWrap(t) ==
    /\ threads[t].pc = "unwrapped"
    /\ LET api == RealApi(threads[t].op) IN
       threads' = [threads EXCEPT ![t].pc = "returned",
                      ![t].result = Return(_wrap_result(api.path,
                                               RawParams(api, threads[t].args),
                                               threads[t].data))]
    /\ UNCHANGED single

NextConc ==
    \/ \E t \in Threads : \E op \in RealOps : \E args \in ConcArgs(op) :
          ThreadValidate(t, op, args)
    \/ \E t \in Threads : ThreadRequest(t)
    \/ \E t \in Threads : \E r \in ConcResponses : ThreadUnwrap(t, r)
    \/ \E t \in Threads : ThreadWrap(t)

SpecConc == Init /\ [][NextConc]_vars

(***************************************************************************)
(* Properties.  What the interface documents (spec.md section 6 and the    *)
(* "Required:" line of each method's docstring), stated apart from the     *)
(* code's tables so that the two can disagree.                             *)
(***************************************************************************)
DeclaredRequired(op) ==
    CASE op \in {"get_person_baseinfo", "get_cr_info"} -> {"id", "passport", "phonenum"}
      [] op \in {"get_family_members", "get_top_contacts", "get_vehicles",
                 "get_social_accounts", "get_locations"} -> {"id", "phonenum"}
      [] op \in {"search_voip_records", "search_sms_records"} -> {"keyword", "phonenum"}
      [] op = "search_email_records" -> {"keyword", "email"}

\* The "at least one of" set of a method of a mock, from its docstring and
\* its error message; {} for a method with another rule.
AnyOfSet(tool, op) ==
    CASE tool = "investigation_apis" -> DeclaredRequired(op)
      [] tool = "investigation_mock_apis" /\ op = "get_person_basic_info" -> {"id", "phone"}
      [] tool = "investigation_mock_apis" /\ op = "get_contact_statistics" -> {"phone", "email"}
      [] tool = "investigation_mock_apis" /\ op = "get_social_accounts" -> {"account", "phone"}
      [] tool = "tools2" /\ op = "query_call_detail" -> {"caller", "callee", "phone"}
      [] tool = "tools2" /\ op = "query_location" -> {"phone", "device_id"}
      [] OTHER -> {}

IsReal == call.tool = "investigation_apis"

Ended == pc \in {"returned", "raised"}

\* The elements of a list value.
Elems(l) == { l.items[i].v : i \in DOMAIN l.items }

\* The value is a MissingParamsError.
IsMissingParams(v) ==
    v.t = "dict" /\ Get(v, "error") = Str("MISSING_REQUIRED_PARAMS")

\* The answer got past the transport and was parsed.
Parsed(r) == r.kind = "response" /\ r.json_ok /\ ~(r.status >= 400 /\ r.status < 600)

\* The parsed body is an object with a code field.
Tagged(r) == Parsed(r) /\ r.body.t = "dict" /\ HasKey(r.body, "code")

\* ... whose code is the number 200.
Code200(r) == Tagged(r) /\ Get(r.body, "code") \in {Num(200), Float(200, "0")}

\* C1: a real-client call with every parameter absent returns
\* {error: "MISSING_REQUIRED_PARAMS", message, missing_fields} with
\* missing_fields exactly the method's declared required set, and sends no GET.
C1_AllAbsentReturnsMissingParams ==
    (IsReal /\ pc # "idle" /\ call.args = Dict(<<>>)) =>
        /\ pc = "returned"
        /\ result.kind = "return"
        /\ result.val.t = "dict"
        /\ Keys(result.val) = {"error", "message", "missing_fields"}
        /\ Len(result.val.items) = 3
        /\ Get(result.val, "error") = Str("MISSING_REQUIRED_PARAMS")
        /\ Get(result.val, "message").t = "str"
        /\ Get(result.val, "missing_fields").t = "list"
        /\ Elems(Get(result.val, "missing_fields"))
             = { Str(p) : p \in DeclaredRequired(call.op) }
        /\ Len(Get(result.val, "missing_fields").items)
             = Cardinality(DeclaredRequired(call.op))
        /\ sent = <<>>
        /\ resp = <<>>

C1_Witness ==
    /\ IsReal
    /\ call.op = "search_email_records"
    /\ call.args = Dict(<<>>)
    /\ pc = "returned"
    /\ invocations = 2
    /\ requests = 1

\* The call passes one parameter of the method's "at least one of" set, with
\* a non-empty value, and nothing else.
OneAlone ==
    \E p \in AnyOfSet(call.tool, call.op) :
        /\ call.args.items # <<>>
        /\ call.args = Dict(<<KV(p, call.args.items[1].v)>>)
        /\ call.args.items[1].v.t = "str"
        /\ call.args.items[1].v.s # ""

\* C2: in every method whose rule is "at least one of S", a call that gives
\* one member of S alone, non-empty, passes validation: no missing-parameters
\* error, and the GET is sent (real client) or the mock data is returned.
C2_AnyOneSuffices ==
    (pc # "idle" /\ OneAlone) =>
        CASE call.tool = "investigation_apis" ->
               /\ Len(sent) = 1
               /\ ~(result.kind = "return" /\ IsMissingParams(result.val))
               /\ pc = "waiting" \/ Len(resp) = 1
          [] call.tool = "investigation_mock_apis" ->
               /\ result.kind = "return"
               /\ Get(result.val, "code") = Num(0)
               /\ HasKey(result.val, "data")
               /\ ~HasKey(result.val, "missing_params")
          [] call.tool = "tools2" ->
               /\ result.kind = "return"
               /\ Get(result.val, "ok") = Bool(TRUE)
               /\ Get(result.val, "data") # None

C2_Witness ==
    /\ IsReal
    /\ call.op = "get_cr_info"
    /\ call.args = Dict(<<KV("passport", Str("P7654321"))>>)
    /\ pc = "waiting"
    /\ Len(sent) = 1

\* The parameters of the method called.
ParamsOf(tool, op) ==
    LET ps == CASE tool = "investigation_apis" -> RealApi(op).params
                [] tool = "investigation_mock_apis" -> MockParams(op)
                [] tool = "tools2" -> UnifiedParams(op)
    IN { ps[i] : i \in DOMAIN ps }

\* What the call of op with args gives back, the backend having answered
\* as in answers (real client).
Outcome(tool, op, args, answers) ==
    CASE tool = "investigation_apis" ->
           IF Truthy(Validate(op, args)) THEN Return(Validate(op, args))
           ELSE IF answers = <<>> THEN NoResult
           ELSE Complete(op, args, answers[1])
      [] tool = "investigation_mock_apis" -> MockOutcome(op, args)
      [] tool = "tools2" -> UnifiedOutcome(op, args)

\* C3: in every method of every variant an argument "" is the same as the
\* argument left out: passing "" for a str parameter the call left out
\* changes neither whether validation passes nor what the call gives back.
C3_EmptyIsAbsent ==
    Ended =>
        \A p \in ParamsOf(call.tool, call.op) \ (Keys(call.args) \cup IntParams) :
            Outcome(call.tool, call.op, Dict(call.args.items \o <<KV(p, Str(""))>>), resp)
              = result

\* C4: when the parsed body is an object whose code is 200, _get returns the
\* body's data field (None when it has none) and the method returns a
\* WrappedResult with that value as data.
C4_Code200YieldsData ==
    (IsReal /\ Ended /\ resp # <<>> /\ Code200(resp[1])) =>
        LET body == resp[1].body
            data == IF HasKey(body, "data")
                    THEN body.items[CHOOSE i \in DOMAIN body.items : body.items[i].k = "data"].v
                    ELSE None
        IN /\ GetResult(resp[1]) = Return(data)
           /\ pc = "returned"
           /\ result.kind = "return"
           /\ HasKey(result.val, "data")
           /\ Get(result.val, "data") = data
           /\ HasKey(result.val, "found")

C4_Witness ==
    /\ IsReal
    /\ pc = "returned"
    /\ resp = <<Response(200, TRUE, Dict(<<KV("code", Num(200)), KV("msg", Str("ok")),
                                          KV("data", Dict(<<KV("x", Num(1))>>))>>))>>
    /\ Get(result.val, "data") = Dict(<<KV("x", Num(1))>>)

\* C5: when the parsed body is an object whose code is not 200, the call
\* raises (nothing is returned) and the exception's message contains the
\* body's msg.
C5_BusinessErrorRaisesMsg ==
    (IsReal /\ Ended /\ resp # <<>> /\ Tagged(resp[1]) /\ ~Code200(resp[1])) =>
        /\ pc = "raised"
        /\ result.kind = "raise"
        /\ result.val.t = "str"
        /\ (HasKey(resp[1].body, "msg") /\ Get(resp[1].body, "msg").t = "str")
             => Contains(result.val.s, Get(resp[1].body, "msg").s)

C5_Witness ==
    /\ IsReal
    /\ pc = "raised"
    /\ resp = <<Response(200, TRUE, Dict(<<KV("code", Num(500)), KV("msg", Str("boom"))>>))>>
    /\ Contains(result.val.s, "boom")

\* The value the backend's answer carries for the caller: the data field of
\* an object with a code field (None when it has no data), else the body.
Carried(r) ==
    IF r.body.t = "dict" /\ \E i \in DOMAIN r.body.items : r.body.items[i].k = "code"
    THEN IF \E i \in DOMAIN r.body.items : r.body.items[i].k = "data"
         THEN r.body.items[CHOOSE i \in DOMAIN r.body.items : r.body.items[i].k = "data"].v
         ELSE None
    ELSE r.body

\* The call ended by returning the wrapped answer of the backend.
Wrapped == IsReal /\ pc = "returned" /\ resp # <<>>

\* C6: in every WrappedResult, found is false exactly when data is None, []
\* or {}; it is true for every other data, 0, False and "" included.
C6_FoundIffDataNonEmpty ==
    Wrapped =>
        /\ HasKey(result.val, "found")
        /\ Get(result.val, "found")
             = Bool(Get(result.val, "data") \notin {None, List(<<>>), Dict(<<>>)})
        /\ Get(result.val, "data") = Carried(resp[1])

C6_Witness ==
    /\ Wrapped
    /\ Get(result.val, "data") = Num(0)
    /\ Get(result.val, "found") = Bool(TRUE)
    /\ Get(result.val, "query_params") = Dict(<<KV("keyword", Str("invoice"))>>)

\* spec.md section 6: the path of each operation.
DeclaredPath(op) ==
    CASE op = "get_person_baseinfo" -> "/ai/baseinfo"
      [] op = "get_family_members" -> "/ai/family"
      [] op = "get_cr_info" -> "/ai/cr"
      [] op = "get_top_contacts" -> "/ai/contact"
      [] op = "get_vehicles" -> "/ai/car"
      [] op = "get_social_accounts" -> "/ai/social"
      [] op = "get_locations" -> "/ai/location"
      [] op = "search_voip_records" -> "/ai/voip"
      [] op = "search_sms_records" -> "/ai/sms"
      [] op = "search_email_records" -> "/ai/email"

\* get_person_baseinfo(phonenum="96890001122") answered
\* {"code": 200, "data": {"name": "X"}}
C7_Example ==
    /\ Wrapped
    /\ call.op = "get_person_baseinfo"
    /\ call.args = Dict(<<KV("phonenum", Str("96890001122"))>>)
    /\ resp = <<Response(200, TRUE,
                  Dict(<<KV("code", Num(200)), KV("data", Dict(<<KV("name", Str("X"))>>))>>))>>

\* C7: every successful return of a real-client method is a mapping with
\* exactly the keys api, query_params, found, data; api is the method's fixed
\* path, query_params holds exactly the arguments given with a non-empty
\* value, data is the Gateway's value unchanged; and the example of the spec
\* yields {api: "/ai/baseinfo", query_params: {phonenum: "96890001122"},
\* found: true, data: {name: X}}.
C7_WrappedResultShape ==
    Wrapped =>
        LET w == result.val
            qp == Get(w, "query_params")
        IN /\ result.kind = "return"
           /\ w.t = "dict"
           /\ Keys(w) = {"api", "query_params", "found", "data"}
           /\ Len(w.items) = 4
           /\ Get(w, "api") = Str(DeclaredPath(call.op))
           /\ qp.t = "dict"
           /\ Len(qp.items) = Cardinality(Keys(qp))
           /\ \A p \in ParamsOf(call.tool, call.op) \cup Keys(qp) :
                /\ HasKey(qp, p) <=> (HasKey(call.args, p) /\ Get(call.args, p) # Str(""))
                /\ HasKey(qp, p) => Get(qp, p) = Get(call.args, p)
           /\ Get(w, "found").t = "bool"
           /\ Get(w, "data") = Carried(resp[1])
           /\ C7_Example =>
                w = Dict(<< KV("api", Str("/ai/baseinfo")),
                            KV("query_params", Dict(<<KV("phonenum", Str("96890001122"))>>)),
                            KV("found", Bool(TRUE)),
                            KV("data", Dict(<<KV("name", Str("X"))>>)) >>)

C7_Witness ==
    /\ C7_Example
    /\ Get(result.val, "found") = Bool(TRUE)

\* The arguments give a member of the declared required set a non-empty value.
PassesValidation(op, args) ==
    \E p \in DeclaredRequired(op) :
        HasKey(args, p) /\ Get(args, p).t = "str" /\ Get(args, p).s # ""

\* A step that starts a real-client call whose arguments pass validation
\* sends one GET; no other step sends any.
C8_Step ==
    IF pc = "idle" /\ call'.tool = "investigation_apis"
       /\ PassesValidation(call'.op, call'.args)
    THEN requests' = requests + 1 /\ Len(sent') = 1
    ELSE requests' = requests /\ (sent' = sent \/ sent' = <<>>)

\* C8: every real-client invocation that passes validation issues exactly
\* one GET whatever its outcome, and over any sequence of invocations the
\* number of GETs equals the number of invocations that passed validation.
C8_OneGetPerValidatedCall ==
    /\ [](requests = validated /\ validated <= invocations)
    /\ [][C8_Step]_vars

C8_Witness ==
    /\ requests = 3
    /\ invocations = 3
    /\ pc = "raised"
    /\ resp = <<Failure("Timeout")>>

\* The failures the claim names: an exception of requests.get, a status
\* outside 2xx, a body that does not parse.
ClaimedFailure(r) ==
    \/ r.kind # "response"
    \/ r.status < 200 \/ r.status > 299
    \/ ~r.json_ok

TransportFailure(r) ==
    \/ r.kind # "response"
    \/ r.status >= 400 /\ r.status <= 599
    \/ ~r.json_ok

C10_RawBodyPassesThrough ==
    (IsReal /\ Ended /\ resp # <<>> /\ Parsed(resp[1]) /\ ~Tagged(resp[1])) =>
        /\ GetResult(resp[1]) = Return(resp[1].body)
        /\ pc = "returned"
        /\ result.kind = "return"
        /\ Get(result.val, "data") = resp[1].body
        /\ Get(result.val, "found")
             = Bool(resp[1].body \notin {None, List(<<>>), Dict(<<>>)})

C10_Witness ==
    /\ Wrapped
    /\ resp[1].body = Dict(<<KV("msg", Str("ok")), KV("data", Dict(<<KV("name", Str("X"))>>))>>)
    /\ Get(result.val, "data") = resp[1].body
    /\ Get(result.val, "found") = Bool(TRUE)

\* The call ended by raising on a body with a code other than 200.
BusinessError(r) == Tagged(r) /\ ~Code200(r)

\* C11 as claimed: every return value is a mapping, and a real-client method
\* raises only on a transport failure or an unparseable body.
C11_Original ==
    /\ result.kind = "return" => result.val.t = "dict"
    /\ (IsReal /\ pc = "raised") => (ClaimedFailure(resp[1]) \/ TransportFailure(resp[1]))

\* C11 (amended): every return value is a mapping, and a real-client method
\* raises exactly on a transport failure, an unparseable body, or a parsed
\* body that is an object with a code other than 200; in every other case it
\* returns a mapping.
C11_RaisesOnlyOnFailureOrBusinessError ==
    /\ result.kind = "return" => result.val.t = "dict"
    /\ (IsReal /\ Ended /\ resp = <<>>) => pc = "returned"
    /\ (IsReal /\ Ended /\ resp # <<>>) =>
         /\ pc = "raised" <=> (TransportFailure(resp[1]) \/ BusinessError(resp[1]))
         /\ pc = "returned" <=> result.kind = "return"

C11_Witness ==
    /\ IsReal
    /\ pc = "raised"
    /\ resp = <<Response(200, TRUE,
                  Dict(<<KV("code", Num(0)), KV("msg", Str("boom")),
                         KV("data", Dict(<<KV("x", Num(1))>>))>>))>>
    /\ result.exc = "Exception"

\* C12: each real-client method requests its one fixed path of the interface
\* table and applies the table's "one of" rule; the path does not depend on
\* the arguments, and the api of the WrappedResult is the path requested.
C12_FixedPathAndRule ==
    (IsReal /\ pc # "idle") =>
        /\ Len(sent) = 1 <=> PassesValidation(call.op, call.args)
        /\ Len(sent) = 0 <=> (result.kind = "return" /\ IsMissingParams(result.val))
        /\ Len(sent) = 1 =>
             sent[1].url = valves.backend_base_url \o DeclaredPath(call.op)
        /\ (pc = "returned" /\ Len(sent) = 1) =>
             /\ Get(result.val, "api").t = "str"
             /\ sent[1].url = valves.backend_base_url \o Get(result.val, "api").s

C12_Witness ==
    /\ IsReal
    /\ call.op = "get_cr_info"
    /\ pc = "returned"
    /\ Len(sent) = 1
    /\ sent[1].url = "http://192.168.80.185:8654/ai/cr"
    /\ Get(result.val, "api") = Str("/ai/cr")

\* C13: a lookup that finds nothing is no error: when the Gateway yields
\* None, [] or {} (from a code-200 envelope or a raw body) the method returns
\* a WrappedResult with found false and that value as data; it does not
\* raise and does not return a MISSING_REQUIRED_PARAMS error.
C13_NotFoundIsSuccess ==
    (IsReal /\ Ended /\ resp # <<>> /\ Parsed(resp[1]) /\ ~BusinessError(resp[1])
       /\ Carried(resp[1]) \in {None, List(<<>>), Dict(<<>>)}) =>
        /\ pc = "returned"
        /\ result.kind = "return"
        /\ Keys(result.val) = {"api", "query_params", "found", "data"}
        /\ Get(result.val, "found") = Bool(FALSE)
        /\ Get(result.val, "data") = Carried(resp[1])
        /\ ~IsMissingParams(result.val)

C13_Witness ==
    /\ Wrapped
    /\ resp = <<Response(200, TRUE, Dict(<<>>))>>
    /\ Get(result.val, "found") = Bool(FALSE)
    /\ Get(result.val, "data") = Dict(<<>>)

\* The call is of a mock method on a record that requires phone.
PhoneRecordCall ==
    \/ call.tool = "investigation_mock_apis" /\ call.op \in {"get_voip_records", "get_sms_records"}
    \/ call.tool = "tools2" /\ call.op = "query_cdr"

\* The i-th element of a list value.
Item(l, i) == l.items[i].v

\* The fields of the returned payload that echo the phone.
EchoedPhones ==
    LET data == Get(result.val, "data") IN
    IF call.tool = "tools2"
    THEN { Get(Item(Get(data, "records"), i), "phone") : i \in {1, 2} }
         \cup { Get(Item(Get(Get(data, "raw"), "records"), i), "phone") : i \in {1, 2} }
    ELSE { Get(data, "phone"),
           Get(Item(Get(data, "items"), 1), "from"),
           Get(Item(Get(data, "items"), 2), "to") }

\* The call returned a payload of records.
HasPayload ==
    /\ result.kind = "return"
    /\ IF call.tool = "tools2"
       THEN Get(result.val, "ok") = Bool(TRUE) /\ Get(result.val, "data").t = "dict"
       ELSE Get(result.val, "code") = Num(0) /\ Get(result.val, "data").t = "dict"

\* The phone placeholders of the two mock files.
PhonePlaceholders == { Str("+96890001122"), Str("13800000000") }

MockRequired(op) ==
    CASE op = "get_person_basic_info" -> {"id", "phone"}
      [] op = "get_contact_statistics" -> {"phone", "email"}
      [] op = "get_social_accounts" -> {"account", "phone"}
      [] op = "get_company_registration" -> {"id"}
      [] op \in {"get_voip_records", "get_sms_records"} -> {"phone"}
      [] op = "get_email_records" -> {"email"}

IsMock == call.tool = "investigation_mock_apis"

IsUnified == call.tool = "tools2"

\* The validation of the investigation mock passes: a member of the required
\* set is given (with any value but None).
MockPasses(op, args) == \E p \in MockRequired(op) : HasKey(args, p)

\* C17: every method of the investigation mock returns the unified envelope:
\* {code: 0, data} exactly when validation passed, and otherwise
\* {code: 500, msg, missing_params, ask_user_prompt} with missing_params
\* naming every parameter of the required set and no data; no other code.
C17_MockEnvelope ==
    (IsMock /\ pc # "idle") =>
        /\ pc = "returned"
        /\ result.kind = "return"
        /\ result.val.t = "dict"
        /\ Get(result.val, "code") \in {Num(0), Num(500)}
        /\ Get(result.val, "code") = Num(0) <=> MockPasses(call.op, call.args)
        /\ Get(result.val, "code") = Num(0) => Keys(result.val) = {"code", "data"}
        /\ Get(result.val, "code") = Num(500) =>
             /\ Keys(result.val) = {"code", "msg", "missing_params", "ask_user_prompt"}
             /\ Get(result.val, "msg").t = "str"
             /\ Get(result.val, "ask_user_prompt").t = "str"
             /\ Get(result.val, "missing_params").t = "list"
             /\ Elems(Get(result.val, "missing_params"))
                  = { Str(p) : p \in MockRequired(call.op) }

C17_Witness ==
    /\ IsMock
    /\ call.op = "get_contact_statistics"
    /\ call.args = Dict(<<KV("query_id", Str("v-query_id"))>>)
    /\ pc = "returned"
    /\ Get(result.val, "code") = Num(500)
    /\ Get(result.val, "missing_params") = List(<<Str("phone"), Str("email")>>)

\* The required-parameter check of each method of the unified mock fails,
\* from the "Missing required ..." message of the method; a parameter left
\* out has its declared default.
UnifiedCheckFails(op, args) ==
    LET given(p) == Truthy(Bound(args, p, UnifiedDefault(op, p))) IN
    CASE op = "query_person_basic_info" ->
           ~given("person_id") /\ ~(given("name") /\ given("phone"))
      [] op = "query_call_detail" -> ~given("caller") /\ ~given("callee") /\ ~given("phone")
      [] op = "query_db_basic" -> ~given("id_number")
      [] op = "query_location" -> ~given("phone") /\ ~given("device_id")
      [] op = "query_cdr" -> ~given("phone")

\* C18: every method of the unified mock returns, for every input, a dict
\* with exactly the keys ok (a bool), message (a str) and data; ok is false
\* exactly when the required-parameter check failed, and then data is None.
C18_UnifiedReplyShape ==
    (IsUnified /\ pc # "idle") =>
        /\ result.kind = "return"
        /\ Keys(result.val) = {"ok", "message", "data"}
        /\ Get(result.val, "ok").t = "bool"
        /\ Get(result.val, "message").t = "str"
        /\ Get(result.val, "ok") = Bool(FALSE) <=> UnifiedCheckFails(call.op, call.args)
        /\ Get(result.val, "ok") = Bool(FALSE) => Get(result.val, "data") = None

\* The same for the calls that bind every parameter declared without a
\* default.
C18_ShapeWhenBound ==
    (IsUnified /\ pc # "idle" /\ Unbound(call.op, call.args) = {}) =>
        /\ result.kind = "return"
        /\ Keys(result.val) = {"ok", "message", "data"}
        /\ Get(result.val, "ok").t = "bool"
        /\ Get(result.val, "message").t = "str"
        /\ Get(result.val, "ok") = Bool(FALSE) <=> UnifiedCheckFails(call.op, call.args)
        /\ Get(result.val, "ok") = Bool(FALSE) => Get(result.val, "data") = None

\* The required-parameter check of the call in progress ran and failed.
CheckFailed ==
    /\ pc # "idle"
    /\ \/ IsReal /\ ~PassesValidation(call.op, call.args)
       \/ IsMock /\ ~MockPasses(call.op, call.args)
       \/ IsUnified /\ Unbound(call.op, call.args) = {}
            /\ UnifiedCheckFails(call.op, call.args)

\* The returned value is the error of the variant and nothing else.
ErrorOnly ==
    /\ result.kind = "return"
    /\ \/ IsReal /\ Keys(result.val) = {"error", "message", "missing_fields"}
       \/ IsMock /\ Get(result.val, "code") = Num(500) /\ ~HasKey(result.val, "data")
            /\ Keys(result.val) \subseteq {"code", "msg", "missing_params", "ask_user_prompt"}
       \/ IsUnified /\ Keys(result.val) = {"ok", "message", "data"}
            /\ Get(result.val, "ok") = Bool(FALSE) /\ Get(result.val, "data") = None

\* A GET goes out only in the step that starts a real-client call whose
\* arguments pass the check.
C19_Step ==
    (sent' # sent /\ sent' # <<>>) =>
        /\ pc = "idle"
        /\ call'.tool = "investigation_apis"
        /\ PassesValidation(call'.op, call'.args)

\* C19: the required-parameter check is decided before any outbound request
\* or mock payload: a call whose check fails ends at once with the error
\* value only, no GET sent and no record in the returned value, and no GET
\* goes out but for arguments that pass the check.
C19_CheckBeforeWork ==
    /\ [](CheckFailed => (pc = "returned" /\ sent = <<>> /\ resp = <<>> /\ ErrorOnly))
    /\ [][C19_Step]_vars

C19_Witness ==
    /\ IsReal
    /\ call.op = "search_email_records"
    /\ call.args = Dict(<<KV("keyword", Str("")), KV("email", Str(""))>>)
    /\ CheckFailed
    /\ pc = "returned"
    /\ sent = <<>>
    /\ requests = 0

\* The (name, value) pairs of a dict value.
Pairs(d) == { <<d.items[i].k, d.items[i].v>> : i \in DOMAIN d.items }

\* C20: the query of every outbound GET holds exactly the parameters of the
\* method whose given value is neither None nor "", each unchanged, and so
\* none that is None or "".
C20_QueryIsCleaned ==
    (IsReal /\ Len(sent) >= 1) =>
        \A i \in DOMAIN sent :
            /\ sent[i].query.t = "dict"
            /\ Len(sent[i].query.items) = Cardinality(Pairs(sent[i].query))
            /\ Pairs(sent[i].query)
                 = { e \in Pairs(call.args) : e[2] # None /\ e[2] # Str("") }
            /\ \A e \in Pairs(sent[i].query) : e[2] \notin {None, Str("")}

C20_Witness ==
    /\ IsReal
    /\ call.op = "get_person_baseinfo"
    /\ call.args = Dict(<<KV("id", Str("")), KV("phonenum", Str("96890001122"))>>)
    /\ pc = "waiting"
    /\ sent[1].query = Dict(<<KV("phonenum", Str("96890001122"))>>)

C16_ConcurrentCallsIndependent ==
    \A t \in Threads :
        /\ threads[t].pc \in {"returned", "raised"} =>
             threads[t].result
               = Outcome("investigation_apis", threads[t].op, threads[t].args, threads[t].resp)
        /\ threads[t].sent # <<>> =>
             threads[t].sent = <<Request(valves, threads[t].op, threads[t].args)>>

C16_Witness ==
    /\ threads[1].pc = "unwrapped"
    /\ threads[1].op = "get_person_baseinfo"
    /\ threads[2].pc = "returned"
    /\ threads[2].op = "search_email_records"
    /\ threads[2].resp # <<>>
    /\ threads[2].resp # threads[1].resp
    /\ Get(threads[2].result.val, "api") = Str("/ai/email")

\* C21: no operation modifies the shared configuration: no step of any call,
\* whatever its outcome (success, missing-parameters return, business error,
\* transport failure), changes the base URL held in the valves, so after any
\* sequence of calls it is what it was before.
C21_ValvesNeverModified ==
    [][valves'.backend_base_url = valves.backend_base_url]_vars

C21_Witness ==
    /\ valves.backend_base_url = "http://192.168.80.185:8654/"
    /\ invocations = MaxCalls
    /\ validated >= 2
    /\ IsReal
    /\ pc = "raised"
    /\ sent[1].url = "http://192.168.80.185:8654/ai/baseinfo"

\* The call gives the parameter p a non-empty value.
NonEmpty(p) == HasKey(call.args, p) /\ Get(call.args, p) # Str("")

\* The value the claim gives the field of parameter p: the value given, or
\* the placeholder.
EchoOr(p, placeholder) == IF NonEmpty(p) THEN Get(call.args, p) ELSE Str(placeholder)

\* C22: query_person_basic_info of the unified mock passes validation iff
\* person_id is non-empty or both name and phone are; otherwise (name alone
\* or phone alone included) it returns ok false with data None; on success
\* personId, name and phone of the data are the values given, or
\* MOCK_ID_0001, Mock User and 13800000000 for those not given.
C22_PersonValidationAndPlaceholders ==
    (IsUnified /\ call.op = "query_person_basic_info" /\ pc # "idle") =>
        LET passes == NonEmpty("person_id") \/ (NonEmpty("name") /\ NonEmpty("phone"))
            data == Get(result.val, "data")
        IN /\ result.kind = "return"
           /\ Get(result.val, "ok") = Bool(passes)
           /\ ~passes => data = None
           /\ passes =>
                /\ Get(data, "personId") = EchoOr("person_id", "MOCK_ID_0001")
                /\ Get(data, "name") = EchoOr("name", "Mock User")
                /\ Get(data, "phone") = EchoOr("phone", "13800000000")

C22_Witness ==
    /\ IsUnified
    /\ call.op = "query_person_basic_info"
    /\ call.args = Dict(<<KV("name", Str("v-name")), KV("phone", Str("96890001122"))>>)
    /\ pc = "returned"
    /\ Get(result.val, "ok") = Bool(TRUE)
    /\ Get(Get(result.val, "data"), "personId") = Str("MOCK_ID_0001")
    /\ Get(Get(result.val, "data"), "name") = Str("v-name")

\* C23: validation and cleaning agree in the real client: every GET sent
\* carries a non-empty query that holds a member of the method's required
\* set, and a GET is sent whenever the arguments pass the check.
C23_QueryHoldsIdentifier ==
    (IsReal /\ pc # "idle") =>
        /\ PassesValidation(call.op, call.args) => Len(sent) = 1
        /\ \A i \in DOMAIN sent :
             /\ sent[i].query.t = "dict"
             /\ Len(sent[i].query.items) >= 1
             /\ Keys(sent[i].query) \cap DeclaredRequired(call.op) # {}

C23_Witness ==
    /\ IsReal
    /\ call.op = "search_email_records"
    /\ call.args = Dict(<<KV("keyword", Str("")), KV("email", Str("demo@example.com"))>>)
    /\ pc = "waiting"
    /\ Keys(sent[1].query) = {"email"}

====
